---- MODULE Spec2Model ----
(***************************************************************************)
(* Library-view configuration of the experimental app: the ItemsView       *)
(* component (ItemsView.tsx) and the query/settings helpers of utils/items *)
(* (getVideoBasicFilter .. getDefaultLibraryViewSettings).                 *)
(*                                                                         *)
(* State: the view that is mounted (viewType, parentId, collectionType),   *)
(* its settings record (libraryViewSettings, the value held by             *)
(* useLocalStorage), the persisted records by key (localStorage) and, for  *)
(* each key, the views that persisted under it (storageOwners).            *)
(* The helpers are pure functions of that state and are operators here.    *)
(***************************************************************************)
EXTENDS Integers, Sequences, FiniteSets, TLC

VARIABLES viewType, parentId, collectionType, libraryViewSettings, localStorage,
          storageOwners

vars == <<viewType, parentId, collectionType, libraryViewSettings, localStorage,
          storageOwners>>

(***************************************************************************)
(* Bounds of the model.                                                    *)
(***************************************************************************)
\* filter fields present in Filters at the same time
MaxFields == 2
\* values selected over all filter fields together
MaxSelected == 2
\* largest pagination offset (in pages)
MaxStartIndex == 1
\* views mounted (and persisted) in one run
MaxMounts == 2

(***************************************************************************)
(* JavaScript values, tagged with their typeof: undefined and null are     *)
(* values of their own, distinct from every string, boolean and array.     *)
(***************************************************************************)
Undefined == <<"undefined">>
Null == <<"null">>
Bool(b) == <<"boolean", b>>
Num(n) == <<"number", n>>
Str(s) == <<"string", s>>
Arr(a) == <<"object", a>>

IsUndefined(v) == v[1] = "undefined"

\* ToBoolean, as applied by `!!x`, `x ? a : b` and `x || y`
Truthy(v) ==
    CASE v[1] = "undefined" -> FALSE
      [] v[1] = "null" -> FALSE
      [] v[1] = "boolean" -> v[2]
      [] v[1] = "number" -> v[2] # 0
      [] v[1] = "string" -> v[2] # ""
      [] OTHER -> TRUE

\* ToString, as applied by a template literal `${x}`
TemplateString(v) ==
    CASE v[1] = "undefined" -> "undefined"
      [] v[1] = "null" -> "null"
      [] v[1] = "boolean" -> (IF v[2] THEN "true" ELSE "false")
      [] OTHER -> v[2]

\* Array.prototype.includes
ArrayIncludes(arr, v) == \E i \in 1..Len(arr) : arr[i] = v

\* String.prototype.includes: searchString occurs somewhere in str
StringIncludes(str, searchString) ==
    \E i \in 1..(Len(str) - Len(searchString) + 1) :
        SubSeq(str, i, i + Len(searchString) - 1) = searchString

\* the elements of an array, in order, without v (Array.prototype.filter)
Without(arr, v) == SelectSeq(arr, LAMBDA x : x # v)

\* object spread {...a, ...b}: the keys of both, b's value where both have the key
Spread(a, b) == b @@ a

\* obj with key k set to v / with key k deleted
SetKey(obj, k, v) == [x \in DOMAIN obj \cup {k} |-> IF x = k THEN v ELSE obj[x]]
DelKey(obj, k) == [x \in DOMAIN obj \ {k} |-> obj[x]]

(***************************************************************************)
(* Enumerations of the SDK and of types/library, types/libraryTab.         *)
(***************************************************************************)
LibraryTabs == {"movies", "episodes", "songs", "albums", "artists", "networks"}

ImageTypes == {"Primary", "Banner", "Disc", "Logo", "Thumb"}

ViewModes == {"GridView", "ListView"}

SortOrders == {"Ascending", "Descending"}

ItemSortBys == {"SortName", "SeriesSortName", "DateCreated", "Random"}

Alphabets == {Null, Str("#"), Str("A"), Str("B")}

CollectionTypes == {Undefined, Str("music")}

ParentIds == {Undefined, Null, Str("undefined"), Str("null"), Str("f137a2dd"), Str("e9d5075a")}

\* the values each filter field offers
FilterValues ==
    [ VideoBasicFilter |-> {"IsSD", "IsHD", "Is4K", "Is3D"},
      Features |-> {"HasSubtitles", "HasTrailer", "HasSpecialFeature",
                    "HasThemeSong", "HasThemeVideo"},
      EpisodeFilter |-> {"ParentIndexNumber", "IsMissing", "IsUnaired"},
      SeriesStatus |-> {"Continuing", "Ended"},
      VideoTypes |-> {"BluRay", "Dvd"},
      Status |-> {"IsPlayed", "IsFavorite"},
      Genres |-> {"Drama", "Comedy"},
      OfficialRatings |-> {"PG", "R"},
      Tags |-> {"classic", "remake"},
      Years |-> {"1999", "2020"},
      StudioIds |-> {"studio-a", "studio-b"} ]

FilterFields == DOMAIN FilterValues

(***************************************************************************)
(* Reading the settings record.  Filters and Alphabet are optional keys;   *)
(* a key that is missing reads as undefined.                               *)
(***************************************************************************)
\* libraryViewSettings.Filters?.[field]
FilterValue(settings, field) ==
    IF "Filters" \in DOMAIN settings /\ field \in DOMAIN settings.Filters
    THEN Arr(settings.Filters[field])
    ELSE Undefined

\* libraryViewSettings.Filters?.[field]?.includes(value)
FilterIncludes(settings, field, value) ==
    IF IsUndefined(FilterValue(settings, field))
    THEN Undefined
    ELSE Bool(ArrayIncludes(FilterValue(settings, field)[2], value))

\* `x ? true : undefined`
TrueOrUndefined(x) == IF Truthy(x) THEN Bool(TRUE) ELSE Undefined

\* libraryViewSettings.Alphabet
AlphabetOf(settings) ==
    IF "Alphabet" \in DOMAIN settings THEN settings.Alphabet ELSE Undefined

(***************************************************************************)
(* utils/items                                                             *)
(***************************************************************************)
\* faulty variant: the SD test is an else-branch of the HD test (HD wins)
getVideoBasicFilterHdWins(settings) ==
    [ isHd |->
        IF Truthy(FilterIncludes(settings, "VideoBasicFilter", "IsHD")) THEN Bool(TRUE)
        ELSE IF Truthy(FilterIncludes(settings, "VideoBasicFilter", "IsSD")) THEN Bool(FALSE)
        ELSE Undefined,
      is4K |-> TrueOrUndefined(FilterIncludes(settings, "VideoBasicFilter", "Is4K")),
      is3D |-> TrueOrUndefined(FilterIncludes(settings, "VideoBasicFilter", "Is3D")) ]

getVideoBasicFilter(settings) ==
    LET isHd0 == Undefined
        isHd1 == IF Truthy(FilterIncludes(settings, "VideoBasicFilter", "IsHD"))
                 THEN Bool(TRUE) ELSE isHd0
        isHd2 == IF Truthy(FilterIncludes(settings, "VideoBasicFilter", "IsSD"))
                 THEN Bool(FALSE) ELSE isHd1
    IN  [ isHd |-> isHd2,
          is4K |-> TrueOrUndefined(FilterIncludes(settings, "VideoBasicFilter", "Is4K")),
          is3D |-> TrueOrUndefined(FilterIncludes(settings, "VideoBasicFilter", "Is3D")) ]

getFeatureFilters(settings) ==
    [ hasSubtitles |-> TrueOrUndefined(FilterIncludes(settings, "Features", "HasSubtitles")),
      hasTrailer |-> TrueOrUndefined(FilterIncludes(settings, "Features", "HasTrailer")),
      hasSpecialFeature |->
          TrueOrUndefined(FilterIncludes(settings, "Features", "HasSpecialFeature")),
      hasThemeSong |-> TrueOrUndefined(FilterIncludes(settings, "Features", "HasThemeSong")),
      hasThemeVideo |-> TrueOrUndefined(FilterIncludes(settings, "Features", "HasThemeVideo")) ]

\* faulty variant: isMissing is computed for every category
getEpisodeFilterUngated(tab, settings) ==
    [ parentIndexNumber |->
          IF Truthy(FilterIncludes(settings, "EpisodeFilter", "ParentIndexNumber"))
          THEN Num(0) ELSE Undefined,
      isMissing |-> Bool(Truthy(FilterIncludes(settings, "EpisodeFilter", "IsMissing"))),
      isUnaired |-> TrueOrUndefined(FilterIncludes(settings, "EpisodeFilter", "IsUnaired")) ]

\* faulty variant: isMissing without the `!!` coercion (true or undefined)
getEpisodeFilterNoCoercion(tab, settings) ==
    [ parentIndexNumber |->
          IF Truthy(FilterIncludes(settings, "EpisodeFilter", "ParentIndexNumber"))
          THEN Num(0) ELSE Undefined,
      isMissing |->
          IF tab = "episodes"
          THEN TrueOrUndefined(FilterIncludes(settings, "EpisodeFilter", "IsMissing"))
          ELSE Undefined,
      isUnaired |-> TrueOrUndefined(FilterIncludes(settings, "EpisodeFilter", "IsUnaired")) ]

getEpisodeFilter(tab, settings) ==
    [ parentIndexNumber |->
          IF Truthy(FilterIncludes(settings, "EpisodeFilter", "ParentIndexNumber"))
          THEN Num(0) ELSE Undefined,
      isMissing |->
          IF tab = "episodes"
          THEN Bool(Truthy(FilterIncludes(settings, "EpisodeFilter", "IsMissing")))
          ELSE Undefined,
      isUnaired |-> TrueOrUndefined(FilterIncludes(settings, "EpisodeFilter", "IsUnaired")) ]

\* faulty variant: the networks category is treated like any other
getItemFieldsEnumNoNetworks(tab, settings) ==
    LET f1 == <<"BasicSyncInfo", "MediaSourceCount">>
    IN  IF settings.ImageType = "Primary"
        THEN f1 \o <<"PrimaryImageAspectRatio">> ELSE f1

getItemFieldsEnum(tab, settings) ==
    LET f0 == <<>>
        f1 == IF tab # "networks"
              THEN f0 \o <<"BasicSyncInfo", "MediaSourceCount">> ELSE f0
        f2 == IF settings.ImageType = "Primary"
              THEN f1 \o <<"PrimaryImageAspectRatio">> ELSE f1
        f3 == IF tab = "networks"
              THEN f2 \o <<"DateCreated", "PrimaryImageAspectRatio">> ELSE f2
    IN  f3

getFieldsQuery(tab, settings) == [ fields |-> getItemFieldsEnum(tab, settings) ]

\* faulty variant: '#' is treated like any other character
getAlphaPickerQueryNoSentinel(settings) ==
    LET alphabetValue == IF AlphabetOf(settings) # Null THEN AlphabetOf(settings)
                         ELSE Undefined
    IN  [ nameLessThan |-> Undefined, nameStartsWith |-> alphabetValue ]

getAlphaPickerQuery(settings) ==
    LET alphabetValue == IF AlphabetOf(settings) # Null THEN AlphabetOf(settings)
                         ELSE Undefined
    IN  [ nameLessThan |-> IF alphabetValue = Str("#") THEN Str("A") ELSE Undefined,
          nameStartsWith |-> IF alphabetValue = Str("#") THEN Undefined
                             ELSE alphabetValue ]

getFiltersQuery(tab, settings) ==
    Spread(Spread(Spread(getFeatureFilters(settings), getEpisodeFilter(tab, settings)),
                  getVideoBasicFilter(settings)),
           [ seriesStatus |-> FilterValue(settings, "SeriesStatus"),
             videoTypes |-> FilterValue(settings, "VideoTypes"),
             filters |-> FilterValue(settings, "Status"),
             genres |-> FilterValue(settings, "Genres"),
             officialRatings |-> FilterValue(settings, "OfficialRatings"),
             tags |-> FilterValue(settings, "Tags"),
             years |-> FilterValue(settings, "Years"),
             studioIds |-> FilterValue(settings, "StudioIds") ])

getSettingsKey(tab, parent) == tab \o " - " \o TemplateString(parent)

\* faulty variant: the defaults do not look at the category
getDefaultLibraryViewSettingsAllGrid(tab) ==
    [ ShowTitle |-> TRUE,
      ShowYear |-> FALSE,
      ViewMode |-> "GridView",
      ImageType |-> "Primary",
      CardLayout |-> FALSE,
      SortBy |-> "SortName",
      SortOrder |-> "Ascending",
      StartIndex |-> 0 ]

getDefaultLibraryViewSettings(tab) ==
    [ ShowTitle |-> TRUE,
      ShowYear |-> FALSE,
      ViewMode |-> IF tab = "songs" THEN "ListView" ELSE "GridView",
      ImageType |-> IF tab = "networks" THEN "Thumb" ELSE "Primary",
      CardLayout |-> FALSE,
      SortBy |-> "SortName",
      SortOrder |-> "Ascending",
      StartIndex |-> 0 ]

(***************************************************************************)
(* ItemsView.tsx                                                           *)
(***************************************************************************)
\* faulty variant: no branch for the artists category
getCardOptionsNoArtists(tab, settings, context) ==
    LET imageType == settings.ImageType
        shape == CASE imageType = "Banner" -> "banner"
                   [] imageType = "Disc" -> "square"
                   [] imageType = "Logo" -> "backdrop"
                   [] imageType = "Thumb" -> "backdrop"
                   [] OTHER -> "auto"
    IN  [ shape |-> Str(shape),
          showTitle |-> Bool(settings.ShowTitle),
          showYear |-> Bool(settings.ShowYear),
          cardLayout |-> Bool(settings.CardLayout),
          centerText |-> Bool(TRUE),
          context |-> context,
          coverImage |-> Bool(TRUE),
          preferThumb |-> IF imageType = "Thumb" THEN Bool(TRUE) ELSE Undefined,
          preferDisc |-> IF imageType = "Disc" THEN Bool(TRUE) ELSE Undefined,
          preferLogo |-> IF imageType = "Logo" THEN Bool(TRUE) ELSE Undefined,
          overlayPlayButton |-> Bool(FALSE),
          overlayMoreButton |-> Bool(TRUE),
          overlayText |-> Bool(~settings.ShowTitle),
          showParentTitle |-> IF tab \in {"songs", "albums", "episodes"}
                              THEN Bool(settings.ShowTitle) ELSE Undefined,
          lines |-> Num(IF settings.ShowTitle THEN 2 ELSE 0) ]

getCardOptions(tab, settings, context) ==
    LET imageType == settings.ImageType
        lines0 == IF settings.ShowTitle THEN 2 ELSE 0
        shape == CASE imageType = "Banner" -> "banner"
                   [] imageType = "Disc" -> "square"
                   [] imageType = "Logo" -> "backdrop"
                   [] imageType = "Thumb" -> "backdrop"
                   [] OTHER -> "auto"
        preferDisc == IF imageType = "Disc" THEN Bool(TRUE) ELSE Undefined
        preferLogo == IF imageType = "Logo" THEN Bool(TRUE) ELSE Undefined
        preferThumb == IF imageType = "Thumb" THEN Bool(TRUE) ELSE Undefined
        isParentTitleTab == tab = "songs" \/ tab = "albums" \/ tab = "episodes"
        isArtistsTab == ~isParentTitleTab /\ tab = "artists"
    IN  [ shape |-> Str(shape),
          showTitle |-> Bool(settings.ShowTitle),
          showYear |-> IF isArtistsTab THEN Bool(FALSE) ELSE Bool(settings.ShowYear),
          cardLayout |-> Bool(settings.CardLayout),
          centerText |-> Bool(TRUE),
          context |-> context,
          coverImage |-> Bool(TRUE),
          preferThumb |-> preferThumb,
          preferDisc |-> preferDisc,
          preferLogo |-> preferLogo,
          overlayPlayButton |-> Bool(FALSE),
          overlayMoreButton |-> Bool(TRUE),
          overlayText |-> Bool(~settings.ShowTitle),
          showParentTitle |-> IF isParentTitleTab THEN Bool(settings.ShowTitle)
                              ELSE Undefined,
          lines |-> Num(IF isArtistsTab THEN 1 ELSE lines0) ]

\* Object.values(libraryViewSettings.Filters ?? {}).some((filter) => !!filter)
hasFilters(settings) ==
    LET filters == IF "Filters" \in DOMAIN settings THEN settings.Filters ELSE <<>>
    IN  \E field \in DOMAIN filters : Truthy(Arr(filters[field]))

\* faulty variant: SortBy compared with SortName for equality
hasSortNameExact(settings) == settings.SortBy = "SortName"

\* libraryViewSettings.SortBy.includes(ItemSortBy.SortName), SortBy a string
hasSortName(settings) == StringIncludes(settings.SortBy, "SortName")

(***************************************************************************)
(* The state after ItemsView is mounted for (viewType, parentId):          *)
(* useLocalStorage(getSettingsKey(..), getDefaultLibraryViewSettings(..)). *)
(***************************************************************************)
Init ==
    /\ viewType \in LibraryTabs
    /\ parentId \in ParentIds
    /\ collectionType \in CollectionTypes
    /\ libraryViewSettings = getDefaultLibraryViewSettings(viewType)
    /\ localStorage = [k \in {getSettingsKey(viewType, parentId)} |-> libraryViewSettings]
    /\ storageOwners =
           [k \in {getSettingsKey(viewType, parentId)} |-> {<<viewType, parentId>>}]

\* the views mounted so far
Mounted == UNION {storageOwners[k] : k \in DOMAIN storageOwners}

\* setLibraryViewSettings(next): the hook's value and the persisted record change
setLibraryViewSettings(next) ==
    /\ libraryViewSettings' = next
    /\ localStorage' = SetKey(localStorage, getSettingsKey(viewType, parentId), next)
    /\ UNCHANGED <<viewType, parentId, collectionType, storageOwners>>

\* the filter selection of the record, {} when it has none
FiltersOf(settings) ==
    IF "Filters" \in DOMAIN settings THEN settings.Filters ELSE <<>>

\* number of values selected over all the filter fields
Selected(filters) ==
    LET RECURSIVE Sum(_)
        Sum(fs) == IF fs = {} THEN 0
                   ELSE LET f == CHOOSE x \in fs : TRUE
                        IN  Len(filters[f]) + Sum(fs \ {f})
    IN  Sum(DOMAIN filters)

WithFilters(settings, filters) ==
    SetKey(SetKey(settings, "Filters", filters), "StartIndex", 0)

(***************************************************************************)
(* Filter dialog (FilterButton): edits of one filter field.                *)
(***************************************************************************)
AddFilterValue(field, value) ==
    LET filters == FiltersOf(libraryViewSettings)
        existing == IF field \in DOMAIN filters THEN filters[field] ELSE <<>>
    IN  /\ ~ArrayIncludes(existing, value)
        /\ Cardinality(DOMAIN filters \cup {field}) <= MaxFields
        /\ Selected(filters) < MaxSelected
        /\ setLibraryViewSettings(
               WithFilters(libraryViewSettings,
                           SetKey(filters, field, Append(existing, value))))

RemoveFilterValue(field, value) ==
    LET filters == FiltersOf(libraryViewSettings)
    IN  /\ field \in DOMAIN filters
        /\ ArrayIncludes(filters[field], value)
        /\ setLibraryViewSettings(
               WithFilters(libraryViewSettings,
                           SetKey(filters, field, Without(filters[field], value))))

ClearFilterField(field) ==
    LET filters == FiltersOf(libraryViewSettings)
    IN  /\ field \in DOMAIN filters
        /\ setLibraryViewSettings(
               WithFilters(libraryViewSettings, DelKey(filters, field)))

ResetFilters ==
    /\ "Filters" \in DOMAIN libraryViewSettings
    /\ setLibraryViewSettings(
           SetKey(DelKey(libraryViewSettings, "Filters"), "StartIndex", 0))

(***************************************************************************)
(* View controls: SortButton, GridListViewButton, AlphabetPicker,          *)
(* Pagination and the view-settings menu.                                  *)
(***************************************************************************)
SetShowTitle(b) ==
    /\ libraryViewSettings.ShowTitle # b
    /\ setLibraryViewSettings([libraryViewSettings EXCEPT !.ShowTitle = b])

SetShowYear(b) ==
    /\ libraryViewSettings.ShowYear # b
    /\ setLibraryViewSettings([libraryViewSettings EXCEPT !.ShowYear = b])

SetCardLayout(b) ==
    /\ libraryViewSettings.CardLayout # b
    /\ setLibraryViewSettings([libraryViewSettings EXCEPT !.CardLayout = b])

SetImageType(imageType) ==
    /\ libraryViewSettings.ImageType # imageType
    /\ setLibraryViewSettings([libraryViewSettings EXCEPT !.ImageType = imageType])

SetViewMode(mode) ==
    /\ libraryViewSettings.ViewMode # mode
    /\ setLibraryViewSettings([libraryViewSettings EXCEPT !.ViewMode = mode])

SetSortBy(sortBy) ==
    /\ libraryViewSettings.SortBy # sortBy
    /\ setLibraryViewSettings(
           [libraryViewSettings EXCEPT !.SortBy = sortBy, !.StartIndex = 0])

SetSortOrder(order) ==
    /\ libraryViewSettings.SortOrder # order
    /\ setLibraryViewSettings(
           [libraryViewSettings EXCEPT !.SortOrder = order, !.StartIndex = 0])

SetAlphabet(letter) ==
    /\ AlphabetOf(libraryViewSettings) # letter
    /\ setLibraryViewSettings(
           SetKey(SetKey(libraryViewSettings, "Alphabet", letter), "StartIndex", 0))

ClearAlphabet ==
    /\ "Alphabet" \in DOMAIN libraryViewSettings
    /\ setLibraryViewSettings(
           SetKey(DelKey(libraryViewSettings, "Alphabet"), "StartIndex", 0))

SetStartIndex(index) ==
    /\ libraryViewSettings.StartIndex # index
    /\ setLibraryViewSettings([libraryViewSettings EXCEPT !.StartIndex = index])

(***************************************************************************)
(* Navigation: ItemsView is mounted for another (viewType, parentId).  The *)
(* record is loaded from its key, or created from the defaults and         *)
(* persisted under the key when nothing is stored there.                   *)
(***************************************************************************)
Mount(tab, parent, context) ==
    LET key == getSettingsKey(tab, parent)
        loaded == IF key \in DOMAIN localStorage THEN localStorage[key]
                  ELSE getDefaultLibraryViewSettings(tab)
        owners == IF key \in DOMAIN storageOwners THEN storageOwners[key] ELSE {}
    IN  /\ <<tab, parent>> # <<viewType, parentId>>
        /\ Cardinality(Mounted \cup {<<tab, parent>>}) <= MaxMounts
        /\ viewType' = tab
        /\ parentId' = parent
        /\ collectionType' = context
        /\ libraryViewSettings' = loaded
        /\ localStorage' = SetKey(localStorage, key, loaded)
        /\ storageOwners' = SetKey(storageOwners, key, owners \cup {<<tab, parent>>})

NextFilters ==
    \/ \E field \in FilterFields : \E value \in FilterValues[field] :
           AddFilterValue(field, value)
    \/ \E field \in FilterFields : \E value \in FilterValues[field] :
           RemoveFilterValue(field, value)
    \/ \E field \in FilterFields : ClearFilterField(field)
    \/ ResetFilters

NextView ==
    \/ \E b \in BOOLEAN : SetShowTitle(b)
    \/ \E b \in BOOLEAN : SetShowYear(b)
    \/ \E b \in BOOLEAN : SetCardLayout(b)
    \/ \E imageType \in ImageTypes : SetImageType(imageType)
    \/ \E mode \in ViewModes : SetViewMode(mode)
    \/ \E sortBy \in ItemSortBys : SetSortBy(sortBy)
    \/ \E order \in SortOrders : SetSortOrder(order)
    \/ \E letter \in Alphabets : SetAlphabet(letter)
    \/ ClearAlphabet
    \/ \E index \in 0..MaxStartIndex : SetStartIndex(index)

NextKeys ==
    \E tab \in LibraryTabs : \E parent \in ParentIds : \E context \in CollectionTypes :
        Mount(tab, parent, context)

Next == NextFilters \/ NextView \/ NextKeys

Spec == Init /\ [][Next]_vars

\* a view of the library root
InitRoot == Init /\ parentId = Undefined

\* a view of the library root outside any collection
InitPlain == InitRoot /\ collectionType = Undefined

\* the filter dialog alone, on one view
SpecFilters == InitPlain /\ [][NextFilters]_vars

\* the view controls alone, on one view
SpecView == InitRoot /\ [][NextView]_vars

\* navigation alone
SpecKeys == Init /\ [][NextKeys]_vars

(***************************************************************************)
(* Properties.                                                             *)
(***************************************************************************)
\* value is among the selected values of the filter field of the mounted record
IsSelected(field, value) ==
    /\ "Filters" \in DOMAIN libraryViewSettings
    /\ field \in DOMAIN libraryViewSettings.Filters
    /\ \E i \in 1..Len(libraryViewSettings.Filters[field]) :
           libraryViewSettings.Filters[field][i] = value

\* the elements of an array
Elements(arr) == {arr[i] : i \in 1..Len(arr)}

\* C1, as stated: isHd is true whenever the HD flag is selected (also when SD
\* is selected too), false when SD is selected and HD is not, absent when
\* neither is selected or there is no filter structure.
C1_HdTakesPrecedence ==
    getVideoBasicFilter(libraryViewSettings).isHd =
        IF IsSelected("VideoBasicFilter", "IsHD") THEN Bool(TRUE)
        ELSE IF IsSelected("VideoBasicFilter", "IsSD") THEN Bool(FALSE)
        ELSE Undefined

\* C1, amended: isHd is false whenever the SD flag is selected (also when HD is
\* selected too: SD takes precedence), true when HD is selected and SD is not,
\* absent when neither is selected or there is no filter structure.
C1_SdTakesPrecedence ==
    getVideoBasicFilter(libraryViewSettings).isHd =
        IF IsSelected("VideoBasicFilter", "IsSD") THEN Bool(FALSE)
        ELSE IF IsSelected("VideoBasicFilter", "IsHD") THEN Bool(TRUE)
        ELSE Undefined

C1_BothSelected ==
    /\ IsSelected("VideoBasicFilter", "IsHD")
    /\ IsSelected("VideoBasicFilter", "IsSD")
    /\ getVideoBasicFilter(libraryViewSettings).isHd = Bool(FALSE)

\* C2: after any sequence of filter edits from the default record, hasFilters
\* is true exactly when some filter field holds a non-empty selection: false on
\* the fresh record and false again once every field is absent or empty.
C2_HasFiltersIffSelection ==
    hasFilters(libraryViewSettings) <=>
        \E field \in DOMAIN FiltersOf(libraryViewSettings) :
            Len(FiltersOf(libraryViewSettings)[field]) > 0

\* C3, as stated: hasSortName is true if and only if the configured sort field
\* is the sort-by-name identifier SortName (so false for SeriesSortName).
C3_HasSortNameIffSortName ==
    hasSortName(libraryViewSettings) <=> libraryViewSettings.SortBy = "SortName"

\* C3, amended: hasSortName is true if and only if the configured sort
\* identifier contains the text SortName, that is for SortName and for
\* SeriesSortName, and false for DateCreated and Random; it is true for the
\* default record of every category.
C3_HasSortNameIffContainsSortName ==
    /\ hasSortName(libraryViewSettings) <=>
           libraryViewSettings.SortBy \in {"SortName", "SeriesSortName"}
    /\ \A tab \in LibraryTabs : hasSortName(getDefaultLibraryViewSettings(tab))

C3_SeriesSortName ==
    /\ libraryViewSettings.SortBy = "SeriesSortName"
    /\ hasSortName(libraryViewSettings)

\* C4: two mounted views have the same settings key if and only if they have
\* the same category and the same parent id (a string, null or undefined).
C4_KeyInjective ==
    \A a \in Mounted : \A b \in Mounted :
        (getSettingsKey(a[1], a[2]) = getSettingsKey(b[1], b[2])) <=> (a = b)

\* C5: isMissing is true for the Episodes category with the is-missing flag
\* selected and absent for every other category whatever the flag is;
\* parentIndexNumber (0 when selected, else absent) and isUnaired (true when
\* selected, else absent) are the same for every category.
C5_IsMissingGatedOnEpisodes ==
    /\ IsSelected("EpisodeFilter", "IsMissing") =>
           getEpisodeFilter("episodes", libraryViewSettings).isMissing = Bool(TRUE)
    /\ viewType # "episodes" =>
           getEpisodeFilter(viewType, libraryViewSettings).isMissing = Undefined
    /\ \A tab \in LibraryTabs :
           LET f == getEpisodeFilter(tab, libraryViewSettings)
           IN  /\ tab # "episodes" => f.isMissing = Undefined
               /\ f.parentIndexNumber =
                      IF IsSelected("EpisodeFilter", "ParentIndexNumber")
                      THEN Num(0) ELSE Undefined
               /\ f.isUnaired =
                      IF IsSelected("EpisodeFilter", "IsUnaired")
                      THEN Bool(TRUE) ELSE Undefined

C5_FlagOutsideEpisodes ==
    /\ viewType # "episodes"
    /\ IsSelected("EpisodeFilter", "IsMissing")
    /\ getEpisodeFilter(viewType, libraryViewSettings).isMissing = Undefined
    /\ getEpisodeFilter("episodes", libraryViewSettings).isMissing = Bool(TRUE)

\* C6, as stated: a non-network category requests sync-info and
\* media-source-count, plus image-aspect-ratio exactly when the image type is
\* Primary; the network category requests creation-date and
\* image-aspect-ratio, whatever the image type is.
C6_FieldsByCategory ==
    getFieldsQuery(viewType, libraryViewSettings).fields =
        IF viewType = "networks"
        THEN <<"DateCreated", "PrimaryImageAspectRatio">>
        ELSE IF libraryViewSettings.ImageType = "Primary"
             THEN <<"BasicSyncInfo", "MediaSourceCount", "PrimaryImageAspectRatio">>
             ELSE <<"BasicSyncInfo", "MediaSourceCount">>

\* C6, amended: as stated for the non-network categories; for the network
\* category the set of requested fields is creation-date and
\* image-aspect-ratio whatever the image type is, but the list that is returned
\* depends on it: with image type Primary image-aspect-ratio is listed twice,
\* before creation-date and after it.
C6_FieldsByCategoryWithDuplicate ==
    LET fields == getFieldsQuery(viewType, libraryViewSettings).fields
        primary == libraryViewSettings.ImageType = "Primary"
    IN  /\ viewType # "networks" =>
               fields = IF primary
                        THEN <<"BasicSyncInfo", "MediaSourceCount",
                               "PrimaryImageAspectRatio">>
                        ELSE <<"BasicSyncInfo", "MediaSourceCount">>
        /\ viewType = "networks" =>
               /\ Elements(fields) = {"DateCreated", "PrimaryImageAspectRatio"}
               /\ fields = IF primary
                           THEN <<"PrimaryImageAspectRatio", "DateCreated",
                                  "PrimaryImageAspectRatio">>
                           ELSE <<"DateCreated", "PrimaryImageAspectRatio">>

C6_NetworksPrimary ==
    /\ viewType = "networks"
    /\ libraryViewSettings.ImageType = "Primary"
    /\ Len(getFieldsQuery(viewType, libraryViewSettings).fields) = 3

\* C7: the alphabet query never carries both bounds: none when no alphabet is
\* selected (undefined or null), nameLessThan = 'A' alone for '#', and
\* nameStartsWith = c alone for any other selected character c.
C7_AlphaPickerOneBound ==
    LET q == getAlphaPickerQuery(libraryViewSettings)
        a == AlphabetOf(libraryViewSettings)
    IN  /\ q.nameLessThan = Undefined \/ q.nameStartsWith = Undefined
        /\ a \in {Undefined, Null} =>
               q.nameLessThan = Undefined /\ q.nameStartsWith = Undefined
        /\ a = Str("#") =>
               q.nameLessThan = Str("A") /\ q.nameStartsWith = Undefined
        /\ a \notin {Undefined, Null, Str("#")} =>
               q.nameLessThan = Undefined /\ q.nameStartsWith = a

C7_Sentinel ==
    /\ AlphabetOf(libraryViewSettings) = Str("#")
    /\ getAlphaPickerQuery(libraryViewSettings).nameLessThan = Str("A")

\* C8: for the artists category the card options have lines = 1 and
\* showYear = false whatever ShowTitle and ShowYear are, and every other option
\* is that of a category without a branch of its own (movies); for every other
\* category lines is 2 when ShowTitle is true and 0 when it is false, and
\* showYear is the record's ShowYear.
C8_ArtistsOverride ==
    LET o == getCardOptions(viewType, libraryViewSettings, collectionType)
        plain == getCardOptions("movies", libraryViewSettings, collectionType)
    IN  /\ viewType = "artists" =>
               /\ o.lines = Num(1)
               /\ o.showYear = Bool(FALSE)
               /\ \A k \in DOMAIN o \ {"lines", "showYear"} : o[k] = plain[k]
        /\ viewType # "artists" =>
               /\ o.lines = Num(IF libraryViewSettings.ShowTitle THEN 2 ELSE 0)
               /\ o.showYear = Bool(libraryViewSettings.ShowYear)

C8_ArtistsYearShownTitleHidden ==
    /\ viewType = "artists"
    /\ libraryViewSettings.ShowYear
    /\ ~libraryViewSettings.ShowTitle
    /\ getCardOptions(viewType, libraryViewSettings, collectionType).lines = Num(1)

\* C9: the record created for a view on its first visit is the default of its
\* category, the same on every call: ViewMode List exactly for songs, ImageType
\* Thumb exactly for networks, ShowTitle true, ShowYear false, CardLayout false,
\* sorted by name ascending, StartIndex 0, no filters, no alphabet selection.
C9_Defaults ==
    /\ libraryViewSettings = getDefaultLibraryViewSettings(viewType)
    /\ libraryViewSettings.ViewMode =
           IF viewType = "songs" THEN "ListView" ELSE "GridView"
    /\ libraryViewSettings.ImageType =
           IF viewType = "networks" THEN "Thumb" ELSE "Primary"
    /\ libraryViewSettings.ShowTitle = TRUE
    /\ libraryViewSettings.ShowYear = FALSE
    /\ libraryViewSettings.CardLayout = FALSE
    /\ libraryViewSettings.SortBy = "SortName"
    /\ libraryViewSettings.SortOrder = "Ascending"
    /\ libraryViewSettings.StartIndex = 0
    /\ "Filters" \notin DOMAIN libraryViewSettings
    /\ "Alphabet" \notin DOMAIN libraryViewSettings
    /\ \A tab \in LibraryTabs :
           DOMAIN getDefaultLibraryViewSettings(tab) = DOMAIN libraryViewSettings

C9_SongsAfterNavigation ==
    /\ viewType = "songs"
    /\ Cardinality(Mounted) > 1
    /\ libraryViewSettings.ViewMode = "ListView"

====
